---------------------------- MODULE Spec2Model ----------------------------
(***************************************************************************)
(* Model of the RFQ batch mailer, src/mass_mail.py: main() as a state      *)
(* machine.  One run reads its configuration, opens its run log, loads the *)
(* contact list (a fresh contacts file, or the replay of a prior run log), *)
(* applies --limit, and then either previews (--dry-run) or connects and   *)
(* drives the per-contact retry loop, writing one log row per outcome.     *)
(*                                                                         *)
(* Strings are TLA+ strings; strip() and lower() are modelled on the       *)
(* finite universe of raw strings the inputs are drawn from.  A Message-ID *)
(* is the one-element tuple <<n>> of the n-th message built by send_one;   *)
(* the empty message_id column is <<>>.                                    *)
(*                                                                         *)
(* Specifications: Spec is one run over all command lines; SpecReplay the  *)
(* replay of a prior log of any content; SpecPreview the dry run over      *)
(* longer contact lists; SpecEnv load_env over incomplete environments;    *)
(* SpecSend the sending run; SpecChain a fresh run followed by replay runs *)
(* of the log of the run before, with a clock that names the log files.    *)
(***************************************************************************)
EXTENDS Integers, Sequences, FiniteSets, TLC

VARIABLES
    pc,              \* position of main(): see the actions below
    args,            \* parsed command line (line 240)
    env,             \* the environment variables load_env reads
    csv,             \* rows of the --contacts file
    prior,           \* rows of the --retry-from-log file
    cfg,             \* result of load_env (line 242)
    contacts,        \* line 271
    prev_attempts,   \* line 272
    last_error_map,  \* line 273
    log,             \* rows written to send_log_<run_id>.csv, in order
    log_open,        \* the log file object is open
    latest_status,   \* line 348
    idx,             \* position in contacts of the contact being processed
    attempt,         \* line 367
    ok, fail, skipped,   \* line 347
    server,          \* the SMTP session: "none", "open", "closed"
    nmsg,            \* number of Message-IDs make_msgid has handed to send_one
    tries,           \* history: one record per iteration of the attempt loop
    starts,          \* history: starts[k] = Len(log) when contact k was begun
    previewed,       \* history: contacts rendered by the dry-run preview
    status_csv,      \* rows of the --write-status-csv export
    calls,           \* history: calls of connect, send_message, sleep, quit
    raised,          \* the exception that left main(), "" while there is none
    now,             \* the clock, in whole seconds
    run_id,          \* line 262
    prior_id,        \* the run id in the name of the --retry-from-log file
    runs             \* history: the runs that ended before this one

vars == <<pc, args, env, csv, prior, cfg, contacts, prev_attempts,
          last_error_map, log, log_open, latest_status, idx, attempt,
          ok, fail, skipped, server, nmsg, tries, starts, previewed,
          status_csv, calls, raised, now, run_id, prior_id, runs>>

-----------------------------------------------------------------------------
(* Bounds of the model *)

MaxContacts == 2
MaxResumeRows == 2
MaxPriorRows == 2
MaxRetriesEnv == 2
MaxLimit == 2
MaxPreviewRows == 4
MaxChainContacts == 1
MaxRuns == 3

(* Program constants *)

DefaultMaxRetries == 3
PreviewCount == 3

-----------------------------------------------------------------------------
(* Strings *)

\* str.strip() on the raw strings of the model
Strip(s) ==
    CASE s = " a" -> "a"
      [] s = " n2" -> "n2"
      [] s = " " -> ""
      [] s = "FAILED " -> "FAILED"
      [] OTHER -> s

\* str.lower() on the raw strings of the model
Lower(s) ==
    CASE s = "F" -> "f"
      [] s = "FAILED" -> "failed"
      [] OTHER -> s

NoMsgId == <<>>

SeqsUpTo(S, n) == UNION {[1..k -> S] : k \in 0..n}

Get(f, k, d) == IF k \in DOMAIN f THEN f[k] ELSE d

Put(f, k, v) == [x \in DOMAIN f \cup {k} |-> IF x = k THEN v ELSE f[x]]

Take(s, n) == IF n >= Len(s) THEN s ELSE SubSeq(s, 1, n)

EmptyMap == [x \in {} |-> 0]

-----------------------------------------------------------------------------
(* load_env *)

\* lines 43-44 left out: MAX_RETRIES is taken as it is given
LoadMaxRetriesRaw(raw) == raw

\* lines 32, 43-44
LoadMaxRetries(raw) == IF raw < 1 THEN DefaultMaxRetries ELSE raw

LoadEnvCfg(e) ==
    [max_retries |-> LoadMaxRetries(e.MAX_RETRIES),
     sleep |-> e.SLEEP_SECONDS,
     subject_tpl |-> e.SUBJECT_TEMPLATE]

\* no exception has left main()
NoError == [type |-> "none", lists |-> <<>>]

\* an exception: its class and the names or texts its message lists
Error(type, lists) == [type |-> type, lists |-> lists]

\* the environment variable behind a key of cfg (lines 21-33)
EnvVar(e, k) ==
    CASE k = "host" -> e.SMTP_HOST
      [] k = "user" -> e.SMTP_USER
      [] k = "password" -> e.SMTP_PASSWORD
      [] k = "body_html_tpl" -> e.EMAIL_BODY_HTML_TEMPLATE

\* line 36: [k for k in ("host", "user", "password") if not cfg[k]]
Missing(e) ==
    SelectSeq(<<"host", "user", "password">>, LAMBDA k : EnvVar(e, k) = "")

\* lines 36-40: what load_env raises
LoadEnvError(e) ==
    IF Missing(e) # <<>> THEN Error("RuntimeError", Missing(e))
    ELSE IF EnvVar(e, "body_html_tpl") = ""
    THEN Error("RuntimeError", <<"EMAIL_BODY_HTML_TEMPLATE">>)
    ELSE NoError

\* time.sleep(cfg["sleep"]) raises ValueError for a negative or NaN delay
SleepRaises(c) == c.sleep = "-1"

SleepError == "sleep length must be non-negative"

\* cfg["subject_tpl"].format(company=...) raises KeyError when the template
\* names a field other than company
SubjectRaises(c) == c.subject_tpl = "RFQ {name}"

SubjectError == Error("KeyError", <<"name">>)

\* the clock ticks twice a second; strftime("%Y%m%d_%H%M%S") at line 262
\* keeps the whole second
TicksPerSecond == 2

RunId(t) == t \div TicksPerSecond

\* run_id before line 262
NoRun == -1

\* the ticks a call of time.sleep(cfg["sleep"]) lasts
Pause(c) == IF SleepRaises(c) THEN 0 ELSE TicksPerSecond

-----------------------------------------------------------------------------
(* iter_contacts *)

IterContact(row) ==
    [email |-> Strip(row.email), name |-> Strip(row.name),
     gender |-> Lower(Strip(row.gender)), company |-> Strip(row.company)]

IterContacts(rows) == [k \in 1..Len(rows) |-> IterContact(rows[k])]

-----------------------------------------------------------------------------
(* Replay of a prior log, main() lines 279-302 *)

CountedStatuses == {"failed", "aborted_max_retries", "skipped_max_retries"}

RECURSIVE IndexOf(_, _, _)
IndexOf(tmp, email, k) ==
    IF k > Len(tmp) THEN 0
    ELSE IF tmp[k].email = email THEN k
    ELSE IndexOf(tmp, email, k + 1)

NewEntry(email, row) ==
    [email |-> email, name |-> Strip(row.name),
     gender |-> Lower(Strip(IF row.gender = "" THEN "x" ELSE row.gender)),
     company |-> Strip(row.company),
     prev |-> 0, sent |-> FALSE, err |-> ""]

UpdateEntry(d, row) ==
    LET status == Lower(Strip(row.status)) IN
    IF status = "sent" THEN [d EXCEPT !.sent = TRUE]
    ELSE IF status \in CountedStatuses
         THEN [d EXCEPT !.prev = @ + 1,
                        !.err = IF row.error # "" THEN row.error ELSE @]
         ELSE d

\* a replay that refreshes the contact fields from every later row
ReadRowLastWins(tmp, row) ==
    LET email == Strip(row.email) IN
    IF email = "" THEN tmp
    ELSE LET k0 == IndexOf(tmp, email, 1)
             fresh == NewEntry(email, row)
             t1 == IF k0 = 0 THEN Append(tmp, fresh)
                   ELSE [tmp EXCEPT ![k0] =
                           [@ EXCEPT !.name = fresh.name,
                                     !.gender = fresh.gender,
                                     !.company = fresh.company]]
             k == IndexOf(t1, email, 1)
         IN  [t1 EXCEPT ![k] = UpdateEntry(t1[k], row)]

ReadRow(tmp, row) ==
    LET email == Strip(row.email) IN
    IF email = "" THEN tmp
    ELSE LET t1 == IF IndexOf(tmp, email, 1) = 0
                   THEN Append(tmp, NewEntry(email, row))
                   ELSE tmp
             k == IndexOf(t1, email, 1)
         IN  [t1 EXCEPT ![k] = UpdateEntry(t1[k], row)]

RECURSIVE ReadRows(_, _, _)
ReadRows(tmp, rows, k) ==
    IF k > Len(rows) THEN tmp
    ELSE ReadRows(ReadRow(tmp, rows[k]), rows, k + 1)

\* a replay that admits one attempt too many
EligibleOffByOne(d, max) == ~d.sent /\ d.prev <= max

\* a replay that resumes only contacts with a counted prior attempt
EligibleResumable(d, max) == ~d.sent /\ d.prev < max /\ d.prev > 0

Eligible(d, max) == ~d.sent /\ d.prev < max

EntryContact(d) ==
    [email |-> d.email, name |-> d.name, gender |-> d.gender,
     company |-> d.company]

Included(rows, max) ==
    SelectSeq(ReadRows(<<>>, rows, 1), LAMBDA d : Eligible(d, max))

ReplayContacts(rows, max) ==
    LET inc == Included(rows, max) IN
    [k \in 1..Len(inc) |-> EntryContact(inc[k])]

ReplayPrev(rows, max) ==
    LET inc == Included(rows, max) IN
    [e \in {inc[k].email : k \in 1..Len(inc)} |->
        inc[IndexOf(inc, e, 1)].prev]

ReplayErr(rows, max) ==
    LET inc == Included(rows, max) IN
    [e \in {inc[k].email : k \in 1..Len(inc)} |->
        inc[IndexOf(inc, e, 1)].err]

\* a cap that lets one contact too many through
LimitOffByOne(cs, n) == IF n > 0 THEN Take(cs, n + 1) ELSE cs

\* contacts[:args.limit] when args.limit > 0
Limit(cs, n) == IF n > 0 THEN Take(cs, n) ELSE cs

-----------------------------------------------------------------------------
(* Inputs of a run *)

Args ==
    [source : {"contacts", "retry_from_log", "none"},
     limit : 0..MaxLimit,
     dry_run : BOOLEAN,
     write_status_csv : BOOLEAN]

\* environments with every required variable set
Envs ==
    [MAX_RETRIES : 0..MaxRetriesEnv,
     SLEEP_SECONDS : {"1", "-1"},
     SUBJECT_TEMPLATE : {"RFQ for {company}", "RFQ {name}"},
     SMTP_HOST : {"smtp.example.com"},
     SMTP_USER : {"buyer@example.com"},
     SMTP_PASSWORD : {"secret"},
     EMAIL_BODY_HTML_TEMPLATE : {"body.html"}]

\* environments in which any of the required variables may be unset or empty
AnyEnvs ==
    [MAX_RETRIES : 0..MaxRetriesEnv,
     SLEEP_SECONDS : {"1", "-1"},
     SUBJECT_TEMPLATE : {"RFQ for {company}", "RFQ {name}"},
     SMTP_HOST : {"", "smtp.example.com"},
     SMTP_USER : {"", "buyer@example.com"},
     SMTP_PASSWORD : {"", "secret"},
     EMAIL_BODY_HTML_TEMPLATE : {"", "body.html"}]

\* environments whose delay and subject template are valid
GoodEnvs ==
    {e \in Envs : e.SLEEP_SECONDS = "1" /\ e.SUBJECT_TEMPLATE = "RFQ for {company}"}

\* rows of a contacts file
FreshRows ==
    {[email |-> " a", name |-> "n1", gender |-> "m", company |-> "c1"],
     [email |-> "b", name |-> " n2", gender |-> "F", company |-> "c2"]}

\* a row of a run log: the columns the program reads back or the claims
\* speak of (run_id, timestamp, subject and attachments are left out)
LogRow(c, att, status, mid, err) ==
    [attempt |-> att, email |-> c.email, name |-> c.name,
     gender |-> c.gender, company |-> c.company, status |-> status,
     message_id |-> mid, error |-> err]

\* rows of a prior log handed to a full run
ResumeRows ==
    {LogRow([email |-> e, name |-> "n1", gender |-> "m", company |-> "c1"],
            0, s, NoMsgId, "e1") :
        e \in {"a", "b"}, s \in {"failed", "sent"}}

\* rows of a prior log handed to the replay alone: every status, with and
\* without an email and an error text
StatusRows ==
    {LogRow([email |-> e, name |-> "n1", gender |-> "m", company |-> "c1"],
            0, s, NoMsgId, er) :
        e \in {"", " a", "b"},
        s \in {"sent", "failed", "FAILED ", "aborted_max_retries",
               "skipped_max_retries", ""},
        er \in {"", "e1"}}

Profiles ==
    {[email |-> "", name |-> "n1", gender |-> "m", company |-> "c1"],
     [email |-> "", name |-> " n2", gender |-> "", company |-> "c2"],
     [email |-> "", name |-> "", gender |-> "F", company |-> ""]}

\* rows of a prior log handed to the replay alone: every filling of the
\* contact fields
FieldRows ==
    {LogRow([p EXCEPT !.email = e], 0, s, NoMsgId, "e1") :
        p \in Profiles, e \in {" a", "b"}, s \in {"failed", ""}}

PriorLogs ==
    SeqsUpTo(StatusRows, MaxPriorRows) \cup SeqsUpTo(FieldRows, MaxPriorRows)

-----------------------------------------------------------------------------
(* The run *)

\* a call of a collaborator: connect, send_message, sleep or quit, for the
\* contact at pos and its attempt (0 for connect and quit); ok is FALSE for
\* a call that raised
Call(op, pos, att, returned) ==
    [op |-> op, pos |-> pos, attempt |-> att, ok |-> returned]

\* the variables of main() before its first statement
Blank ==
    /\ pc' = "load_env"
    /\ cfg' = [max_retries |-> 0, sleep |-> "", subject_tpl |-> ""]
    /\ contacts' = <<>>
    /\ prev_attempts' = EmptyMap
    /\ last_error_map' = EmptyMap
    /\ log' = <<>>
    /\ log_open' = FALSE
    /\ latest_status' = EmptyMap
    /\ idx' = 0
    /\ attempt' = 0
    /\ ok' = 0 /\ fail' = 0 /\ skipped' = 0
    /\ server' = "none"
    /\ nmsg' = 0
    /\ tries' = <<>>
    /\ starts' = <<>>
    /\ previewed' = <<>>
    /\ status_csv' = {}
    /\ calls' = <<>>
    /\ raised' = NoError
    /\ run_id' = NoRun

Init ==
    /\ pc = "load_env"
    /\ args \in Args
    /\ env \in Envs
    /\ csv \in IF args.source = "contacts"
               THEN SeqsUpTo(FreshRows, MaxContacts) ELSE {<<>>}
    /\ prior \in IF args.source = "retry_from_log"
                 THEN SeqsUpTo(ResumeRows, MaxResumeRows) ELSE {<<>>}
    /\ cfg = [max_retries |-> 0, sleep |-> "", subject_tpl |-> ""]
    /\ contacts = <<>>
    /\ prev_attempts = EmptyMap
    /\ last_error_map = EmptyMap
    /\ log = <<>>
    /\ log_open = FALSE
    /\ latest_status = EmptyMap
    /\ idx = 0
    /\ attempt = 0
    /\ ok = 0 /\ fail = 0 /\ skipped = 0
    /\ server = "none"
    /\ nmsg = 0
    /\ tries = <<>>
    /\ starts = <<>>
    /\ previewed = <<>>
    /\ status_csv = {}
    /\ calls = <<>>
    /\ raised = NoError
    \* the retry log is the log of a run of an earlier second
    /\ now = TicksPerSecond
    /\ run_id = NoRun
    /\ prior_id = 0
    /\ runs = <<>>

\* line 242
LoadEnv ==
    /\ pc = "load_env"
    /\ IF LoadEnvError(env) # NoError
       THEN /\ raised' = LoadEnvError(env)
            /\ pc' = "crashed"
            /\ UNCHANGED cfg
       ELSE /\ cfg' = LoadEnvCfg(env)
            /\ pc' = "open_log"
            /\ UNCHANGED raised
    /\ UNCHANGED <<args, env, csv, prior, contacts, prev_attempts,
                   last_error_map, log, log_open, latest_status, idx, attempt,
                   ok, fail, skipped, server, nmsg, tries, starts, previewed,
                   status_csv, calls, now, run_id, prior_id, runs>>

\* lines 261-268: open(..., "w") creates the file, or empties the file of
\* that name
OpenLog ==
    /\ pc = "open_log"
    /\ run_id' = RunId(now)
    /\ log' = <<>>
    /\ log_open' = TRUE
    /\ prior' = IF args.source = "retry_from_log" /\ prior_id = RunId(now)
                THEN <<>> ELSE prior
    /\ pc' = "load_contacts"
    /\ UNCHANGED <<args, env, csv, cfg, contacts, prev_attempts,
                   last_error_map, latest_status, idx, attempt,
                   ok, fail, skipped, server, nmsg, tries, starts, previewed,
                   status_csv, calls, raised, now, prior_id, runs>>

\* lines 270-306
LoadContacts ==
    /\ pc = "load_contacts"
    /\ IF args.source = "retry_from_log"
       THEN /\ contacts' = ReplayContacts(prior, cfg.max_retries)
            /\ prev_attempts' = ReplayPrev(prior, cfg.max_retries)
            /\ last_error_map' = ReplayErr(prior, cfg.max_retries)
            /\ pc' = "limit"
            /\ UNCHANGED raised
       ELSE IF args.source = "contacts"
       THEN /\ contacts' = IterContacts(csv)
            /\ pc' = "limit"
            /\ UNCHANGED <<prev_attempts, last_error_map, raised>>
       ELSE \* line 305: ValueError
            /\ pc' = "crashed"
            /\ raised' = Error("ValueError", <<"--contacts">>)
            /\ UNCHANGED <<contacts, prev_attempts, last_error_map>>
    /\ UNCHANGED <<args, env, csv, prior, cfg, log, log_open, latest_status,
                   idx, attempt, ok, fail, skipped, server, nmsg, tries,
                   starts, previewed, status_csv, calls, now, run_id,
                   prior_id, runs>>

\* lines 308-309
ApplyLimit ==
    /\ pc = "limit"
    /\ contacts' = Limit(contacts, args.limit)
    /\ pc' = IF args.dry_run THEN "preview" ELSE "connect"
    /\ UNCHANGED <<args, env, csv, prior, cfg, prev_attempts,
                   last_error_map, log, log_open, latest_status, idx, attempt,
                   ok, fail, skipped, server, nmsg, tries, starts, previewed,
                   status_csv, calls, raised, now, run_id, prior_id, runs>>

\* a preview that renders the whole list
PreviewListAll(cs) == cs

\* line 315: contacts[:3]
PreviewList(cs) == Take(cs, PreviewCount)

\* lines 312-343
Preview ==
    /\ pc = "preview"
    /\ IF contacts # <<>> /\ SubjectRaises(cfg)
       THEN \* line 317 raises
            /\ pc' = "crashed"
            /\ raised' = SubjectError
            /\ UNCHANGED <<log_open, previewed>>
       ELSE /\ previewed' = PreviewList(contacts)
            /\ log_open' = FALSE
            /\ pc' = "done"
            /\ UNCHANGED raised
    /\ UNCHANGED <<args, env, csv, prior, cfg, contacts, prev_attempts,
                   last_error_map, log, latest_status, idx, attempt,
                   ok, fail, skipped, server, nmsg, tries, starts,
                   status_csv, calls, now, run_id, prior_id, runs>>

\* lines 346-348: connect() raises when the server refuses the session
Connect ==
    /\ pc = "connect"
    /\ \E accepted \in BOOLEAN :
         /\ calls' = Append(calls, Call("connect", 0, 0, accepted))
         /\ IF accepted
            THEN /\ server' = "open"
                 /\ ok' = 0 /\ fail' = 0 /\ skipped' = 0
                 /\ latest_status' = EmptyMap
                 /\ idx' = 1
                 /\ pc' = "contact"
                 /\ UNCHANGED raised
            ELSE /\ pc' = "crashed"
                 /\ raised' = Error("SMTPAuthenticationError", <<>>)
                 /\ UNCHANGED <<server, ok, fail, skipped, latest_status,
                                idx>>
    /\ UNCHANGED <<args, env, csv, prior, cfg, contacts, prev_attempts,
                   last_error_map, log, log_open, attempt, nmsg, tries,
                   starts, previewed, status_csv, now, run_id, prior_id,
                   runs>>

-----------------------------------------------------------------------------
(* The send orchestrator, main() lines 350-431 *)

\* what an iteration of the attempt loop can meet: the transport accepts the
\* message; add_attachments raises before the transport is called (line
\* 129); server.send_message raises (line 212)
Outcomes == {"sent", "AttachmentMissing", "TransportError"}

ErrorText(o) ==
    IF o = "AttachmentMissing" THEN "Attachment not found: specifications.xlsx"
    ELSE "SMTPServerDisconnected"

\* a send_one that hands the message to the transport before it looks at
\* the attachments
TransportedFirst(o) == o \in {"sent", "TransportError", "AttachmentMissing"}

\* the transport was called in an iteration with this outcome
Transported(o) == o \in {"sent", "TransportError"}

StatusOf(row) ==
    [status |-> row.status, attempt |-> row.attempt,
     message_id |-> row.message_id, error |-> row.error]

\* an except block that leaves latest_status at the failed row
RecordFirstOnly(st, rows) ==
    IF rows = <<>> THEN st ELSE Put(st, rows[1].email, StatusOf(rows[1]))

\* latest_status[email] = {...} after the log.writerow of each of rows
RECURSIVE Record(_, _)
Record(st, rows) ==
    IF rows = <<>> THEN st
    ELSE Record(Put(st, rows[1].email, StatusOf(rows[1])), Tail(rows))

\* line 355
ShouldSkip(already, max) == already >= max

\* an attempt loop that starts at the carried-forward count itself
FirstAttemptSame(already) == already

\* an attempt loop that numbers its attempts from 1 in every run
FirstAttemptOne(already) == 1

\* line 367
FirstAttempt(already) == already + 1

\* an abort test that is one attempt late
ShouldAbortLate(att, max) == att > max

\* line 420
ShouldAbort(att, max) == att >= max

\* lines 356-363: the row of a skipped contact
SkipRows(c, already, err) ==
    <<LogRow(c, already, "skipped_max_retries", NoMsgId, err)>>

\* lines 397-404: the row of a delivered message
SentRows(c, att, mid) == <<LogRow(c, att, "sent", mid, "")>>

\* an except block whose aborted row loses the error text
FailureRowsNoError(c, att, err, max) ==
    IF ShouldAbort(att, max)
    THEN <<LogRow(c, att, "failed", NoMsgId, err),
           LogRow(c, att, "aborted_max_retries", NoMsgId, "")>>
    ELSE <<LogRow(c, att, "failed", NoMsgId, err)>>

\* lines 409-427: the rows the except block writes
FailureRows(c, att, err, max) ==
    IF ShouldAbort(att, max)
    THEN <<LogRow(c, att, "failed", NoMsgId, err),
           LogRow(c, att, "aborted_max_retries", NoMsgId, err)>>
    ELSE <<LogRow(c, att, "failed", NoMsgId, err)>>

Try(pos, c, att, o, mid) ==
    [pos |-> pos, email |-> c.email, attempt |-> att, outcome |-> o,
     message_id |-> mid]

\* lines 420-430: the except block pauses unless it aborts the contact
PausesAfterFailure(att, max) == ~ShouldAbort(att, max)

\* lines 352-367: the next contact of the list; the pre-check
BeginContact ==
    /\ pc = "contact"
    /\ idx <= Len(contacts)
    /\ LET c == contacts[idx]
           already == Get(prev_attempts, c.email, 0)
       IN  /\ starts' = Append(starts, Len(log))
           /\ IF ShouldSkip(already, cfg.max_retries)
              THEN IF SubjectRaises(cfg)
                   THEN \* line 357 raises outside any try
                        /\ skipped' = skipped + 1
                        /\ pc' = "crashed"
                        /\ raised' = SubjectError
                        /\ UNCHANGED <<log, latest_status, idx, attempt>>
                   ELSE LET rows == SkipRows(c, already,
                                        Get(last_error_map, c.email, ""))
                        IN  /\ skipped' = skipped + 1
                            /\ log' = log \o rows
                            /\ latest_status' = Record(latest_status, rows)
                            /\ idx' = idx + 1
                            /\ pc' = "contact"
                            /\ UNCHANGED <<attempt, raised>>
              ELSE /\ attempt' = FirstAttempt(already)
                   /\ pc' = IF FirstAttempt(already) <= cfg.max_retries
                            THEN "attempt" ELSE "contact"
                   /\ idx' = IF FirstAttempt(already) <= cfg.max_retries
                             THEN idx ELSE idx + 1
                   /\ UNCHANGED <<log, latest_status, skipped, raised>>
    /\ UNCHANGED <<args, env, csv, prior, cfg, contacts, prev_attempts,
                   last_error_map, log_open, ok, fail, server, nmsg, tries,
                   previewed, status_csv, calls, now, run_id, prior_id,
                   runs>>

\* lines 368-431: one iteration of the attempt loop, with its except block
Attempt ==
    /\ pc = "attempt"
    /\ \E o \in Outcomes :
         LET c == contacts[idx]
             max == cfg.max_retries
         IN  IF SubjectRaises(cfg)
             THEN \* line 371 raises KeyError; the except block counts the
                  \* failure and raises it again at line 411
                  /\ fail' = fail + 1
                  /\ tries' = Append(tries,
                        Try(idx, c, attempt, "SubjectError", NoMsgId))
                  /\ pc' = "crashed"
                  /\ raised' = SubjectError
                  /\ UNCHANGED <<log, latest_status, idx, attempt, ok, nmsg,
                                 calls, now>>
             ELSE LET mid == <<nmsg + 1>>
                      delivered == o = "sent"
                      \* line 406 raises inside the try block
                      handled == ~delivered \/ SleepRaises(cfg)
                      err == IF delivered THEN SleepError ELSE ErrorText(o)
                      rows == (IF delivered THEN SentRows(c, attempt, mid)
                               ELSE <<>>)
                              \o (IF handled
                                  THEN FailureRows(c, attempt, err, max)
                                  ELSE <<>>)
                      aborted == handled /\ ShouldAbort(attempt, max)
                      \* line 430 is reached
                      pauses == handled /\ PausesAfterFailure(attempt, max)
                      \* line 430 raises inside the except block
                      crashes == handled /\ ~aborted /\ SleepRaises(cfg)
                      break == (delivered /\ ~handled) \/ aborted
                      again == ~break /\ ~crashes /\ attempt + 1 <= max
                      \* line 212, line 406, line 430
                      made == (IF Transported(o)
                               THEN <<Call("send_message", idx, attempt,
                                           delivered)>>
                               ELSE <<>>)
                              \o (IF delivered
                                  THEN <<Call("sleep", idx, attempt,
                                              ~SleepRaises(cfg))>>
                                  ELSE <<>>)
                              \o (IF pauses
                                  THEN <<Call("sleep", idx, attempt,
                                              ~SleepRaises(cfg))>>
                                  ELSE <<>>)
                  IN  /\ nmsg' = nmsg + 1
                      /\ tries' = Append(tries, Try(idx, c, attempt, o, mid))
                      /\ calls' = calls \o made
                      /\ now' = now + Pause(cfg) *
                                    Len(SelectSeq(made,
                                            LAMBDA m : m.op = "sleep"))
                      /\ ok' = IF delivered THEN ok + 1 ELSE ok
                      /\ fail' = IF handled THEN fail + 1 ELSE fail
                      /\ log' = log \o rows
                      /\ latest_status' = Record(latest_status, rows)
                      /\ attempt' = IF break \/ crashes THEN attempt
                                    ELSE attempt + 1
                      /\ pc' = IF crashes THEN "crashed"
                               ELSE IF again THEN "attempt" ELSE "contact"
                      /\ raised' = IF crashes
                                   THEN Error("ValueError", <<SleepError>>)
                                   ELSE raised
                      /\ idx' = IF crashes \/ again THEN idx ELSE idx + 1
    /\ UNCHANGED <<args, env, csv, prior, cfg, contacts, prev_attempts,
                   last_error_map, log_open, skipped, server, starts,
                   previewed, status_csv, run_id, prior_id, runs>>

\* a main() that returns without server.quit()
FinishNoQuit ==
    /\ pc = "contact"
    /\ idx > Len(contacts)
    /\ log_open' = FALSE
    /\ pc' = IF args.write_status_csv THEN "status" ELSE "done"
    /\ UNCHANGED <<args, env, csv, prior, cfg, contacts, prev_attempts,
                   last_error_map, log, latest_status, idx, attempt,
                   ok, fail, skipped, server, nmsg, tries, starts, previewed,
                   status_csv, calls, raised, now, run_id, prior_id, runs>>

\* lines 433-436
Finish ==
    /\ pc = "contact"
    /\ idx > Len(contacts)
    /\ server' = "closed"
    /\ calls' = Append(calls, Call("quit", 0, 0, TRUE))
    /\ log_open' = FALSE
    /\ pc' = IF args.write_status_csv THEN "status" ELSE "done"
    /\ UNCHANGED <<args, env, csv, prior, cfg, contacts, prev_attempts,
                   last_error_map, log, latest_status, idx, attempt,
                   ok, fail, skipped, nmsg, tries, starts, previewed,
                   status_csv, raised, now, run_id, prior_id, runs>>

\* contact_map = {c["email"]: c for c in contacts}: the last one wins
RECURSIVE ContactMap(_, _)
ContactMap(m, cs) ==
    IF cs = <<>> THEN m ELSE ContactMap(Put(m, cs[1].email, cs[1]), Tail(cs))

StatusRow(email, st, cmap) ==
    LET c == Get(cmap, email, [name |-> "", gender |-> "", company |-> ""])
    IN  [email |-> email, name |-> c.name, gender |-> c.gender,
         company |-> c.company, last_status |-> st.status,
         attempt |-> st.attempt, message_id |-> st.message_id,
         error |-> st.error]

\* lines 438-456
WriteStatus ==
    /\ pc = "status"
    /\ status_csv' = {StatusRow(e, latest_status[e],
                                ContactMap(EmptyMap, contacts)) :
                          e \in DOMAIN latest_status}
    /\ pc' = "done"
    /\ UNCHANGED <<args, env, csv, prior, cfg, contacts, prev_attempts,
                   last_error_map, log, log_open, latest_status, idx, attempt,
                   ok, fail, skipped, server, nmsg, tries, starts, previewed,
                   calls, raised, now, run_id, prior_id, runs>>

Next ==
    \/ LoadEnv
    \/ OpenLog
    \/ LoadContacts
    \/ ApplyLimit
    \/ Preview
    \/ Connect
    \/ BeginContact
    \/ Attempt
    \/ Finish
    \/ WriteStatus

Spec == Init /\ [][Next]_vars

-----------------------------------------------------------------------------
(* The replay alone: main() at line 270, configuration loaded and the run  *)
(* log open, with a prior log of any content                               *)

InitReplay ==
    /\ pc = "load_contacts"
    /\ args \in [source : {"retry_from_log"}, limit : {0, 1},
                 dry_run : {FALSE}, write_status_csv : {FALSE}]
    /\ env \in GoodEnvs
    /\ csv = <<>>
    /\ prior \in PriorLogs
    /\ cfg = LoadEnvCfg(env)
    /\ contacts = <<>>
    /\ prev_attempts = EmptyMap
    /\ last_error_map = EmptyMap
    /\ log = <<>>
    /\ log_open = TRUE
    /\ latest_status = EmptyMap
    /\ idx = 0
    /\ attempt = 0
    /\ ok = 0 /\ fail = 0 /\ skipped = 0
    /\ server = "none"
    /\ nmsg = 0
    /\ tries = <<>>
    /\ starts = <<>>
    /\ previewed = <<>>
    /\ status_csv = {}
    /\ calls = <<>>
    /\ raised = NoError
    /\ now = TicksPerSecond
    /\ run_id = RunId(now)
    /\ prior_id = 0
    /\ runs = <<>>

NextReplay ==
    \/ LoadContacts
    \/ ApplyLimit

SpecReplay == InitReplay /\ [][NextReplay]_vars

-----------------------------------------------------------------------------
(* Vocabulary of the claims about the replay *)

\* the prior rows of an email, as positions of the prior log
RowsOf(e) == {k \in 1..Len(prior) : Strip(prior[k].email) = e}

PriorEmails == {Strip(prior[k].email) : k \in 1..Len(prior)} \ {""}

PriorStatus(k) == Lower(Strip(prior[k].status))

EverSent(e) == \E k \in RowsOf(e) : PriorStatus(k) = "sent"

PriorCount(e) ==
    Cardinality({k \in RowsOf(e) :
        PriorStatus(k) \in {"failed", "aborted_max_retries",
                            "skipped_max_retries"}})

Recognized(e) ==
    \E k \in RowsOf(e) :
        PriorStatus(k) \in {"sent", "failed", "aborted_max_retries",
                            "skipped_max_retries"}

ContactEmails == {contacts[k].email : k \in 1..Len(contacts)}

\* the contact list is the replay's output, before --limit is applied
Replayed == pc = "limit" /\ args.source = "retry_from_log"

FirstRow(e) == CHOOSE k \in RowsOf(e) : \A j \in RowsOf(e) : k <= j

\* the last prior row of e whose column col is not empty (0: none)
LastFilled(e, col) ==
    LET filled == {k \in RowsOf(e) : prior[k][col] # ""} IN
    IF filled = {} THEN 0
    ELSE CHOOSE k \in filled : \A j \in filled : j <= k

\* C6: replay includes an email if and only if none of its prior rows is
\* sent and fewer than max_retries of them are failed, aborted_max_retries
\* or skipped_max_retries; that number is its previous_attempts; each
\* included email is listed once; whatever the order of the prior rows
C6_ReplayInclusion ==
    Replayed =>
        /\ ContactEmails \subseteq PriorEmails
        /\ \A e \in PriorEmails :
             (e \in ContactEmails) <=>
                 (~EverSent(e) /\ PriorCount(e) < cfg.max_retries)
        /\ DOMAIN prev_attempts = ContactEmails
        /\ \A e \in ContactEmails : prev_attempts[e] = PriorCount(e)
        /\ \A j, k \in 1..Len(contacts) :
             contacts[j].email = contacts[k].email => j = k

\* a prior log of which one email is carried forward with a counted attempt
\* and another is left out
C6_Witness ==
    /\ Replayed
    /\ \E e \in ContactEmails : prev_attempts[e] > 0
    /\ PriorEmails \ ContactEmails # {}

\* C7 as stated: each of name, gender and company of an included contact is
\* the value of the last prior row of its email that filled the column
C7_LastPopulated ==
    Replayed =>
        \A k \in 1..Len(contacts) :
            LET e == contacts[k].email IN
            /\ LastFilled(e, "name") # 0 =>
                 contacts[k].name = Strip(prior[LastFilled(e, "name")].name)
            /\ LastFilled(e, "gender") # 0 =>
                 contacts[k].gender =
                     Lower(Strip(prior[LastFilled(e, "gender")].gender))
            /\ LastFilled(e, "company") # 0 =>
                 contacts[k].company =
                     Strip(prior[LastFilled(e, "company")].company)

\* C7, amended: each of name, gender and company of an included contact is
\* the value of the first prior row of its email, filled or not (an empty
\* gender reads as "x")
C7_FirstRow ==
    Replayed =>
        \A k \in 1..Len(contacts) :
            LET r == prior[FirstRow(contacts[k].email)] IN
            /\ contacts[k].name = Strip(r.name)
            /\ contacts[k].gender =
                   IF r.gender = "" THEN "x" ELSE Lower(Strip(r.gender))
            /\ contacts[k].company = Strip(r.company)

\* an included contact whose first prior row leaves the name empty and
\* whose later row fills it
C7_Witness ==
    /\ Replayed
    /\ \E k \in 1..Len(contacts) :
         LET e == contacts[k].email IN
         /\ prior[FirstRow(e)].name = ""
         /\ LastFilled(e, "name") > FirstRow(e)
         /\ contacts[k].name = ""

\* C8 as stated: an email none of whose prior rows has a recognized status
\* is left out of the contact list
C8_UnrecognizedExcluded ==
    Replayed => \A e \in PriorEmails : ~Recognized(e) => e \notin ContactEmails

\* C8, amended: an email none of whose prior rows has a recognized status is
\* included, with previous_attempts 0 and an empty last error
C8_UnrecognizedIncluded ==
    Replayed =>
        \A e \in PriorEmails :
            ~Recognized(e) =>
                /\ e \in ContactEmails
                /\ prev_attempts[e] = 0
                /\ last_error_map[e] = ""

\* an email whose only prior rows have an empty status, in the contact list
C8_Witness ==
    /\ Replayed
    /\ \E e \in PriorEmails : ~Recognized(e) /\ e \in ContactEmails

-----------------------------------------------------------------------------
(* Vocabulary of the claims about the send orchestrator *)

\* the rows written while contact k of the list was processed
SegEnd(k) == IF k < Len(starts) THEN starts[k + 1] ELSE Len(log)

SegRows(k) == SubSeq(log, starts[k] + 1, SegEnd(k))

\* the iterations of the attempt loop made for contact k
TriesOf(k) == SelectSeq(tries, LAMBDA t : t.pos = k)

\* the for loop has moved past contact k
Finished(k) == k < idx

PrevOf(k) == Get(prev_attempts, contacts[k].email, 0)

Statuses(rows) == [j \in 1..Len(rows) |-> rows[j].status]

TerminalStatuses == {"sent", "aborted_max_retries", "skipped_max_retries"}

\* C2: a contact below max_retries all of whose attempts fail gets
\* max_retries - previous_attempts attempts, numbered from
\* previous_attempts + 1 to max_retries, one failed row for each in order,
\* and then one aborted_max_retries row with the error of the last failed
\* row; nothing is attempted or written for it afterwards
C2_AllAttemptsFail ==
    \A k \in 1..Len(starts) :
        (/\ Finished(k)
         /\ PrevOf(k) < cfg.max_retries
         /\ \A j \in 1..Len(TriesOf(k)) : TriesOf(k)[j].outcome # "sent")
        =>
        LET p == PrevOf(k)
            n == cfg.max_retries - p
            rows == SegRows(k)
            ts == TriesOf(k)
        IN  /\ Len(ts) = n
            /\ Len(rows) = n + 1
            /\ \A j \in 1..n :
                 /\ ts[j].attempt = p + j
                 /\ rows[j].status = "failed"
                 /\ rows[j].attempt = p + j
                 /\ rows[j].email = contacts[k].email
                 /\ rows[j].error = ErrorText(ts[j].outcome)
            /\ rows[n + 1].status = "aborted_max_retries"
            /\ rows[n + 1].attempt = cfg.max_retries
            /\ rows[n + 1].email = contacts[k].email
            /\ rows[n + 1].error = rows[n].error

\* the scenario of C2: max_retries 3, a prior log with two failed rows and
\* no sent row for the contact, whose one attempt, numbered 3, fails
C2_Witness ==
    /\ args.source = "retry_from_log"
    /\ cfg.max_retries = 3
    /\ \E k \in 1..Len(starts) :
         /\ Finished(k)
         /\ PrevOf(k) = 2
         /\ PriorCount(contacts[k].email) = 2
         /\ ~EverSent(contacts[k].email)
         /\ Len(TriesOf(k)) = 1
         /\ TriesOf(k)[1].attempt = 3
         /\ Statuses(SegRows(k)) = <<"failed", "aborted_max_retries">>

\* C3 as stated, of the runs that do not end in an uncaught error: once an
\* attempt for a contact is delivered, the last row of the contact is the
\* sent row of that attempt, with the Message-ID of the message delivered,
\* and no later attempt is made for the contact
C3_SentIsFinal ==
    pc # "crashed" =>
    \A k \in 1..Len(starts) :
        \A j \in 1..Len(tries) :
            (tries[j].pos = k /\ tries[j].outcome = "sent") =>
                LET rows == SegRows(k) IN
                /\ rows # <<>>
                /\ rows[Len(rows)].status = "sent"
                /\ rows[Len(rows)].attempt = tries[j].attempt
                /\ rows[Len(rows)].message_id = tries[j].message_id
                /\ \A i \in (j + 1)..Len(tries) : tries[i].pos # k

\* C4: when the run has worked through its list, each contact of the list
\* has rows in the log and the last of them is sent, aborted_max_retries or
\* skipped_max_retries; so is the last row of each email
C4_TerminalStatus ==
    server = "closed" =>
        /\ Len(starts) = Len(contacts)
        /\ \A k \in 1..Len(contacts) :
             LET rows == SegRows(k) IN
             /\ rows # <<>>
             /\ rows[Len(rows)].email = contacts[k].email
             /\ rows[Len(rows)].status \in TerminalStatuses
        /\ \A e \in ContactEmails :
             \E j \in 1..Len(log) :
                 /\ log[j].email = e
                 /\ log[j].status \in TerminalStatuses
                 /\ \A i \in (j + 1)..Len(log) : log[i].email # e

\* a finished run of two contacts, one delivered after a failure and one
\* aborted
C4_Witness ==
    /\ server = "closed"
    /\ Len(contacts) = 2
    /\ Statuses(SegRows(1)) = <<"failed", "sent">>
    /\ SegRows(2)[Len(SegRows(2))].status = "aborted_max_retries"

\* C5 as stated, of the runs whose inter-message delay is a valid one: the
\* attempt numbers of the rows of one contact are strictly increasing, the
\* first being previous_attempts + 1
C5_StrictlyIncreasing ==
    ~SleepRaises(cfg) =>
    \A k \in 1..Len(starts) :
        LET rows == SegRows(k) IN
        /\ rows # <<>> => rows[1].attempt = PrevOf(k) + 1
        /\ \A i, j \in 1..Len(rows) :
             i < j => rows[i].attempt < rows[j].attempt

\* C5, amended: the attempt numbers of the rows of one contact of the list
\* never decrease and the first is previous_attempts + 1; a failed or sent
\* row that follows a failed row carries the next number, every other row
\* (the aborted_max_retries row, a failed row after a sent row) repeats the
\* number of the row before it
C5_NonDecreasing ==
    \A k \in 1..Len(starts) :
        LET rows == SegRows(k) IN
        /\ rows # <<>> => rows[1].attempt = PrevOf(k) + 1
        /\ \A i \in 1..(Len(rows) - 1) :
             rows[i + 1].attempt =
                 IF /\ rows[i].status = "failed"
                    /\ rows[i + 1].status \in {"failed", "sent"}
                 THEN rows[i].attempt + 1
                 ELSE rows[i].attempt

\* a replayed contact with one previous attempt whose attempts 2 and 3 fail
C5_Witness ==
    \E k \in 1..Len(starts) :
        /\ Finished(k)
        /\ PrevOf(k) = 1
        /\ Statuses(SegRows(k)) = <<"failed", "failed", "aborted_max_retries">>
        /\ SegRows(k)[1].attempt = 2
        /\ SegRows(k)[3].attempt = 3

LoggedEmails == {log[j].email : j \in 1..Len(log)}

LastRowOf(e) ==
    log[CHOOSE j \in 1..Len(log) :
            /\ log[j].email = e
            /\ \A i \in (j + 1)..Len(log) : log[i].email # e]

\* C9: at every point of the run, latest_status holds an entry for exactly
\* the emails with a row in the log, equal in status, attempt, message_id
\* and error to the last row of the email; the status export, once written,
\* holds these same values, one row an email
C9_LatestStatus ==
    /\ DOMAIN latest_status = LoggedEmails
    /\ \A e \in LoggedEmails : latest_status[e] = StatusOf(LastRowOf(e))
    /\ (pc = "done" /\ server = "closed" /\ args.write_status_csv) =>
         /\ {r.email : r \in status_csv} = LoggedEmails
         /\ \A r \in status_csv :
              /\ r.last_status = LastRowOf(r.email).status
              /\ r.attempt = LastRowOf(r.email).attempt
              /\ r.message_id = LastRowOf(r.email).message_id
              /\ r.error = LastRowOf(r.email).error
         /\ Cardinality(status_csv) = Cardinality(LoggedEmails)

\* a status export written after a run in which an email got a failed and
\* an aborted_max_retries row and another a sent row
C9_Witness ==
    /\ pc = "done"
    /\ status_csv # {}
    /\ \E e \in LoggedEmails : latest_status[e].status = "aborted_max_retries"
    /\ \E e \in LoggedEmails : latest_status[e].status = "sent"

\* the output of the Contact Source, before --limit
Source ==
    IF args.source = "retry_from_log"
    THEN ReplayContacts(prior, cfg.max_retries)
    ELSE IterContacts(csv)

\* C10: with --limit N > 0 the contact list is the first N contacts of the
\* source; no contact past the N-th is begun or attempted, each row and each
\* attempt belongs to one of the first N, and an email that the source has
\* only past the N-th has no row
C10_LimitCaps ==
    (args.limit > 0 /\ pc \notin {"load_env", "open_log", "load_contacts",
                                  "limit"} /\ args.source # "none") =>
        LET n == args.limit IN
        /\ Len(contacts) <= n
        /\ \A k \in 1..Len(contacts) : contacts[k] = Source[k]
        /\ Len(contacts) = IF Len(Source) < n THEN Len(Source) ELSE n
        /\ Len(starts) <= n
        /\ \A j \in 1..Len(tries) :
             /\ tries[j].pos <= n
             /\ tries[j].email = Source[tries[j].pos].email
        /\ \A j \in 1..Len(log) :
             \E k \in 1..n : k <= Len(Source) /\ log[j].email = Source[k].email
        /\ \A k \in (n + 1)..Len(Source) :
             (\A i \in 1..n : Source[i].email # Source[k].email) =>
                 Source[k].email \notin LoggedEmails

\* contacts=[A,B], limit=1: the run is over, A has rows, B has none
C10_Witness ==
    /\ args.limit = 1
    /\ server = "closed"
    /\ Len(Source) = 2
    /\ Source[1].email # Source[2].email
    /\ Source[1].email \in LoggedEmails
    /\ Source[2].email \notin LoggedEmails

-----------------------------------------------------------------------------
(* The sending run alone: main() without --dry-run, --limit and            *)
(* --write-status-csv, over a contacts file or a retry log                 *)

InitSend ==
    /\ pc = "load_env"
    /\ args \in [source : {"contacts", "retry_from_log"}, limit : {0},
                 dry_run : {FALSE}, write_status_csv : {FALSE}]
    /\ env \in Envs
    /\ csv \in IF args.source = "contacts"
               THEN SeqsUpTo(FreshRows, MaxContacts) ELSE {<<>>}
    /\ prior \in IF args.source = "retry_from_log"
                 THEN SeqsUpTo(ResumeRows, MaxResumeRows) ELSE {<<>>}
    /\ cfg = [max_retries |-> 0, sleep |-> "", subject_tpl |-> ""]
    /\ contacts = <<>>
    /\ prev_attempts = EmptyMap
    /\ last_error_map = EmptyMap
    /\ log = <<>>
    /\ log_open = FALSE
    /\ latest_status = EmptyMap
    /\ idx = 0
    /\ attempt = 0
    /\ ok = 0 /\ fail = 0 /\ skipped = 0
    /\ server = "none"
    /\ nmsg = 0
    /\ tries = <<>>
    /\ starts = <<>>
    /\ previewed = <<>>
    /\ status_csv = {}
    /\ calls = <<>>
    /\ raised = NoError
    /\ now = TicksPerSecond
    /\ run_id = NoRun
    /\ prior_id = 0
    /\ runs = <<>>

NextSend ==
    \/ LoadEnv
    \/ OpenLog
    \/ LoadContacts
    \/ ApplyLimit
    \/ Connect
    \/ BeginContact
    \/ Attempt
    \/ Finish

SpecSend == InitSend /\ [][NextSend]_vars

-----------------------------------------------------------------------------
(* Vocabulary of the claims about the collaborator calls *)

\* the calls of server.send_message made so far, in order
SendCalls == SelectSeq(calls, LAMBDA m : m.op = "send_message")

\* the pause that raised left main() (line 430)
PauseRaised == pc = "crashed" /\ raised = Error("ValueError", <<SleepError>>)

\* C11: an attempt that finds an attachment missing is recorded as a failed
\* row of that attempt with the missing-attachment error and no Message-ID;
\* the transport is not called for it; and it counts like any failure: at
\* max_retries the aborted_max_retries row follows and the contact is not
\* tried again, below max_retries the next attempt of the contact carries
\* the next number (it has been made, or is the next step of the run, or
\* the pause before it raised and ended the run)
C11_AttachmentMissing ==
    \A j \in 1..Len(tries) :
        tries[j].outcome = "AttachmentMissing" =>
            LET t == tries[j]
                rows == SegRows(t.pos)
                max == cfg.max_retries
            IN  /\ \E i \in 1..Len(rows) :
                     /\ rows[i].status = "failed"
                     /\ rows[i].attempt = t.attempt
                     /\ rows[i].email = t.email
                     /\ rows[i].error = ErrorText("AttachmentMissing")
                     /\ rows[i].message_id = NoMsgId
                     /\ t.attempt >= max =>
                          /\ Len(rows) = i + 1
                          /\ rows[i + 1].status = "aborted_max_retries"
                          /\ rows[i + 1].error = rows[i].error
                /\ \A i \in 1..Len(calls) :
                     ~(/\ calls[i].op = "send_message"
                       /\ calls[i].pos = t.pos
                       /\ calls[i].attempt = t.attempt)
                /\ t.attempt <= max
                /\ t.attempt >= max =>
                     \A i \in (j + 1)..Len(tries) : tries[i].pos # t.pos
                /\ t.attempt < max =>
                     IF j < Len(tries)
                     THEN /\ tries[j + 1].pos = t.pos
                          /\ tries[j + 1].attempt = t.attempt + 1
                     ELSE \/ pc = "attempt" /\ idx = t.pos
                                            /\ attempt = t.attempt + 1
                          \/ PauseRaised

\* the attachment is missing at the first attempt of a contact and back at
\* the second, which is delivered: one call of the transport for the contact
C11_Witness ==
    \E k \in 1..Len(starts) :
        /\ Finished(k)
        /\ Len(TriesOf(k)) = 2
        /\ TriesOf(k)[1].outcome = "AttachmentMissing"
        /\ TriesOf(k)[2].outcome = "sent"
        /\ Statuses(SegRows(k)) = <<"failed", "sent">>
        /\ SegRows(k)[1].error = ErrorText("AttachmentMissing")
        /\ Len(SelectSeq(SendCalls, LAMBDA m : m.pos = k)) = 1

-----------------------------------------------------------------------------
(* The dry run alone: main() with --dry-run and a contacts file longer     *)
(* than the preview                                                        *)

InitPreview ==
    /\ pc = "load_env"
    /\ args \in [source : {"contacts"}, limit : 0..MaxLimit,
                 dry_run : {TRUE}, write_status_csv : BOOLEAN]
    /\ env \in Envs
    /\ csv \in SeqsUpTo(FreshRows, MaxPreviewRows)
    /\ prior = <<>>
    /\ cfg = [max_retries |-> 0, sleep |-> "", subject_tpl |-> ""]
    /\ contacts = <<>>
    /\ prev_attempts = EmptyMap
    /\ last_error_map = EmptyMap
    /\ log = <<>>
    /\ log_open = FALSE
    /\ latest_status = EmptyMap
    /\ idx = 0
    /\ attempt = 0
    /\ ok = 0 /\ fail = 0 /\ skipped = 0
    /\ server = "none"
    /\ nmsg = 0
    /\ tries = <<>>
    /\ starts = <<>>
    /\ previewed = <<>>
    /\ status_csv = {}
    /\ calls = <<>>
    /\ raised = NoError
    /\ now = TicksPerSecond
    /\ run_id = NoRun
    /\ prior_id = 0
    /\ runs = <<>>

NextPreview ==
    \/ LoadEnv
    \/ OpenLog
    \/ LoadContacts
    \/ ApplyLimit
    \/ Preview

SpecPreview == InitPreview /\ [][NextPreview]_vars

\* C12: a --dry-run run never connects, never calls the transport, never
\* pauses and writes no row; it renders the first three contacts of the
\* list, or all of them when there are fewer; its run log is created before
\* the contacts are loaded and, when the preview returns, is closed and
\* holds no row
C12_Preview ==
    args.dry_run =>
        /\ server = "none"
        /\ calls = <<>>
        /\ tries = <<>>
        /\ log = <<>>
        /\ status_csv = {}
        /\ Len(previewed) <= PreviewCount
        /\ \A k \in 1..Len(previewed) : previewed[k] = contacts[k]
        /\ pc \in {"load_contacts", "limit", "preview"} =>
             run_id # NoRun /\ log_open
        /\ pc = "done" =>
             /\ run_id # NoRun
             /\ ~log_open
             /\ Len(previewed) = IF Len(contacts) < PreviewCount
                                 THEN Len(contacts) ELSE PreviewCount

\* a preview of a list of four contacts has returned: three were rendered
C12_Witness ==
    /\ args.dry_run
    /\ pc = "done"
    /\ Len(contacts) = 4
    /\ Len(previewed) = 3
    /\ ~log_open
    /\ log = <<>>

\* C13 as stated, of the runs whose inter-message delay is a valid one: each
\* attempt that is not delivered has its failed row in the log, and no
\* exception leaves main() once an attempt has been made
C13_NoPropagation ==
    ~SleepRaises(cfg) =>
        /\ \A j \in 1..Len(tries) :
             tries[j].outcome # "sent" =>
                 \E i \in 1..Len(SegRows(tries[j].pos)) :
                     /\ SegRows(tries[j].pos)[i].status = "failed"
                     /\ SegRows(tries[j].pos)[i].attempt = tries[j].attempt
        /\ tries # <<>> => raised = NoError /\ pc # "crashed"

-----------------------------------------------------------------------------
(* Configuration loading alone: load_env over environments in which any of *)
(* the required variables may be missing                                   *)

InitEnv ==
    /\ pc = "load_env"
    /\ args \in Args
    /\ env \in AnyEnvs
    /\ csv \in IF args.source = "contacts"
               THEN SeqsUpTo(FreshRows, 1) ELSE {<<>>}
    /\ prior = <<>>
    /\ cfg = [max_retries |-> 0, sleep |-> "", subject_tpl |-> ""]
    /\ contacts = <<>>
    /\ prev_attempts = EmptyMap
    /\ last_error_map = EmptyMap
    /\ log = <<>>
    /\ log_open = FALSE
    /\ latest_status = EmptyMap
    /\ idx = 0
    /\ attempt = 0
    /\ ok = 0 /\ fail = 0 /\ skipped = 0
    /\ server = "none"
    /\ nmsg = 0
    /\ tries = <<>>
    /\ starts = <<>>
    /\ previewed = <<>>
    /\ status_csv = {}
    /\ calls = <<>>
    /\ raised = NoError
    /\ now = TicksPerSecond
    /\ run_id = NoRun
    /\ prior_id = 0
    /\ runs = <<>>

NextEnv ==
    \/ LoadEnv
    \/ OpenLog

SpecEnv == InitEnv /\ [][NextEnv]_vars

\* the keys of cfg the configuration requires
Required == {"host", "user", "password", "body_html_tpl"}

\* the required keys whose variable is unset or empty
MissingRequired == {k \in Required : EnvVar(env, k) = ""}

\* the name by which an error message of load_env mentions a key
ErrorName(k) == IF k = "body_html_tpl" THEN "EMAIL_BODY_HTML_TEMPLATE" ELSE k

\* C14 as stated: when load_env has run with some required variable
\* missing, the run has ended with one RuntimeError before the run log is
\* opened or anything is called, and the message of the error lists every
\* missing required variable and no other
C14_ListsEveryMissing ==
    (pc # "load_env" /\ MissingRequired # {}) =>
        /\ pc = "crashed"
        /\ raised.type = "RuntimeError"
        /\ run_id = NoRun /\ ~log_open /\ calls = <<>> /\ contacts = <<>>
        /\ {raised.lists[i] : i \in 1..Len(raised.lists)}
               = {ErrorName(k) : k \in MissingRequired}

-----------------------------------------------------------------------------
(* A chain of runs: a fresh run, and after each run that has ended a       *)
(* replay run given the log of that run.  A run ends by returning, by an   *)
(* exception, or by being terminated from outside between two attempts.    *)
(* The rows a terminated run has written are taken to be all in its file.  *)

\* the clock advances.  It is read at line 262 and nowhere else, and what
\* the run makes of it is whether its second is that of the retry log's
\* name: the clock is let advance until it has left that second
Tick ==
    /\ pc = "open_log"
    /\ RunId(now) <= prior_id
    /\ now' = now + 1
    /\ UNCHANGED <<pc, args, env, csv, prior, cfg, contacts, prev_attempts,
                   last_error_map, log, log_open, latest_status, idx, attempt,
                   ok, fail, skipped, server, nmsg, tries, starts, previewed,
                   status_csv, calls, raised, run_id, prior_id, runs>>

\* the process is terminated between two attempts or two contacts
Kill ==
    /\ pc \in {"contact", "attempt"}
    /\ pc' = "killed"
    /\ UNCHANGED <<args, env, csv, prior, cfg, contacts, prev_attempts,
                   last_error_map, log, log_open, latest_status, idx, attempt,
                   ok, fail, skipped, server, nmsg, tries, starts, previewed,
                   status_csv, calls, raised, now, run_id, prior_id, runs>>

\* main() is started again, with --retry-from-log send_log_<run_id>.csv of
\* the run that has just ended and the same environment
NextRun ==
    /\ pc \in {"done", "crashed", "killed"}
    /\ run_id # NoRun
    /\ Len(runs) + 1 < MaxRuns
    /\ runs' = Append(runs, [run_id |-> run_id, log |-> log,
                             tries |-> tries])
    /\ args' = [args EXCEPT !.source = "retry_from_log"]
    /\ prior' = log
    /\ prior_id' = run_id
    /\ Blank
    /\ UNCHANGED <<env, csv, now>>

InitChain ==
    /\ pc = "load_env"
    /\ args = [source |-> "contacts", limit |-> 0, dry_run |-> FALSE,
               write_status_csv |-> FALSE]
    /\ env \in GoodEnvs
    /\ csv \in {rows \in SeqsUpTo(FreshRows, MaxChainContacts) :
                   \A i, j \in 1..Len(rows) :
                       i # j => Strip(rows[i].email) # Strip(rows[j].email)}
    /\ prior = <<>>
    /\ cfg = [max_retries |-> 0, sleep |-> "", subject_tpl |-> ""]
    /\ contacts = <<>>
    /\ prev_attempts = EmptyMap
    /\ last_error_map = EmptyMap
    /\ log = <<>>
    /\ log_open = FALSE
    /\ latest_status = EmptyMap
    /\ idx = 0
    /\ attempt = 0
    /\ ok = 0 /\ fail = 0 /\ skipped = 0
    /\ server = "none"
    /\ nmsg = 0
    /\ tries = <<>>
    /\ starts = <<>>
    /\ previewed = <<>>
    /\ status_csv = {}
    /\ calls = <<>>
    /\ raised = NoError
    /\ now = 0
    /\ run_id = NoRun
    /\ prior_id = NoRun
    /\ runs = <<>>

NextChain ==
    \/ Tick
    \/ LoadEnv
    \/ OpenLog
    \/ LoadContacts
    \/ ApplyLimit
    \/ Connect
    \/ BeginContact
    \/ Attempt
    \/ Finish
    \/ Kill
    \/ NextRun

SpecChain == InitChain /\ [][NextChain]_vars

\* the run ids of the runs that have opened their log, in order
RunIds ==
    [i \in 1..Len(runs) |-> runs[i].run_id]
        \o (IF run_id # NoRun THEN <<run_id>> ELSE <<>>)

\* C16 as stated, of runs made one after the other: no two runs have the
\* same run id, and the log of the run before is on disk as that run left
\* it
C16_DistinctRunLogs ==
    /\ \A i, j \in 1..Len(RunIds) : i < j => RunIds[i] # RunIds[j]
    /\ (runs # <<>> /\ pc \in {"load_env", "open_log", "load_contacts"}) =>
           prior = runs[Len(runs)].log

\* max_retries as load_env will set it, or has set it
MaxR == LoadMaxRetries(env.MAX_RETRIES)

\* the attempts and the steps of main() still ahead, at most
Measure ==
    CASE pc = "load_env" -> (Len(csv) + Len(prior)) * (MaxR + 1) + 7
      [] pc = "open_log" -> (Len(csv) + Len(prior)) * (MaxR + 1) + 6
      [] pc = "load_contacts" -> (Len(csv) + Len(prior)) * (MaxR + 1) + 5
      [] pc = "limit" -> Len(contacts) * (MaxR + 1) + 4
      [] pc = "connect" -> Len(contacts) * (MaxR + 1) + 3
      [] pc = "contact" -> (Len(contacts) - idx + 1) * (MaxR + 1) + 2
      [] pc = "attempt" -> (Len(contacts) - idx) * (MaxR + 1)
                               + (MaxR - attempt + 1) + 2
      [] pc \in {"preview", "status"} -> 1
      [] OTHER -> 0

\* C17: each contact of the list gets at most max_retries minus its
\* previous attempts iterations of the attempt loop, the run calls the
\* transport at most max_retries times the number of contacts it has begun,
\* and the run ends: every step of main() lowers a natural number
C17_BoundedRun ==
    /\ [](/\ \A k \in 1..Len(starts) :
               /\ Len(TriesOf(k)) <= cfg.max_retries - PrevOf(k)
               /\ Len(SelectSeq(SendCalls, LAMBDA m : m.pos = k))
                      <= Len(TriesOf(k))
          /\ Len(tries) <= cfg.max_retries * Len(starts)
          /\ Len(SendCalls) <= cfg.max_retries * Len(starts)
          /\ Len(starts) <= Len(contacts)
          /\ Measure >= 0)
    /\ [][Measure' < Measure]_vars

\* a run of two contacts has ended in which every attempt met a dead
\* session: max_retries calls of the transport for each
C17_Witness ==
    /\ pc = "done"
    /\ server = "closed"
    /\ Len(contacts) = 2
    /\ cfg.max_retries >= 2
    /\ Len(SendCalls) = cfg.max_retries * 2
    /\ \A i \in 1..Len(SendCalls) : ~SendCalls[i].ok

\* the positions in calls of the calls of an operation
CallsOf(op) == {i \in 1..Len(calls) : calls[i].op = op}

\* the last row of contact k of the list is a terminal one
Terminal(k) ==
    /\ k <= Len(starts)
    /\ SegRows(k) # <<>>
    /\ SegRows(k)[Len(SegRows(k))].status \in TerminalStatuses

\* C18: a run that does not preview calls connect() once, before it begins
\* its first contact and before any other call, and never again, whatever
\* fails afterwards; each call of the transport is made on that session,
\* after it was opened and before it is closed; server.quit() is called at
\* most once, as the last call, when every contact of the list has its
\* terminal row; and a run that has worked through its list has called it
C18_OneSession ==
    /\ CallsOf("connect") \subseteq {1}
    /\ calls # <<>> => calls[1].op = "connect"
    /\ starts # <<>> => calls # <<>> /\ calls[1].ok
    /\ \A i \in CallsOf("send_message") :
         /\ calls[1].op = "connect" /\ calls[1].ok
         /\ \A j \in CallsOf("quit") : i < j
    /\ Cardinality(CallsOf("quit")) <= 1
    /\ \A j \in CallsOf("quit") :
         /\ j = Len(calls)
         /\ \A k \in 1..Len(contacts) : Terminal(k)
    /\ server = "open" <=> /\ calls # <<>> /\ calls[1].ok
                           /\ CallsOf("quit") = {}
    /\ server = "closed" <=> CallsOf("quit") # {}
    /\ (pc \in {"status", "done"} /\ ~args.dry_run) =>
           /\ Cardinality(CallsOf("connect")) = 1
           /\ Cardinality(CallsOf("quit")) = 1

\* a run of two contacts has ended, in which the transport raised and was
\* called again later: one connect, first, and one quit, last
C18_Witness ==
    /\ pc = "done"
    /\ Len(contacts) = 2
    /\ calls # <<>>
    /\ calls[1].op = "connect"
    /\ calls[Len(calls)].op = "quit"
    /\ \E i, j \in CallsOf("send_message") :
         i < j /\ ~calls[i].ok /\ calls[j].ok

\* C19 as stated, of the runs whose inter-message delay is a valid one:
\* between any two calls of the transport that follow one another, whether
\* for the same contact or for two, time.sleep has been called and has
\* returned
C19_PauseBetweenSends ==
    ~SleepRaises(cfg) =>
        \A i, j \in CallsOf("send_message") :
            i < j => \E p \in CallsOf("sleep") : i < p /\ p < j /\ calls[p].ok

\* the iterations of the attempt loop of each run of the chain, in order
ChainTries ==
    [i \in 1..(Len(runs) + 1) |->
        IF i <= Len(runs) THEN runs[i].tries ELSE tries]

\* the number of attempts made for an email over the whole chain
TotalAttempts(e) ==
    Cardinality(UNION {{<<i, j>> : j \in {n \in 1..Len(ChainTries[i]) :
                                             ChainTries[i][n].email = e}} :
                          i \in 1..Len(ChainTries)})

\* the email's last row in the log of the run before is aborted_max_retries
AbortedBefore(e) ==
    /\ runs # <<>>
    /\ LET rows == runs[Len(runs)].log IN
       \E j \in 1..Len(rows) :
           /\ rows[j].email = e
           /\ rows[j].status = "aborted_max_retries"
           /\ \A i \in (j + 1)..Len(rows) : rows[i].email # e

\* C20 as stated: over a fresh run and the replay runs that follow it, each
\* given the log of the run before, no email gets more than max_retries
\* attempts in all, and the replay never includes a contact that the run
\* before ended as aborted_max_retries
C20_ChainBound ==
    /\ \A k \in 1..Len(csv) : TotalAttempts(Strip(csv[k].email)) <= MaxR
    /\ pc \notin {"load_env", "open_log", "load_contacts"} =>
           \A e \in ContactEmails : ~AbortedBefore(e)

-----------------------------------------------------------------------------
(* Vocabulary of the claims about the contacts a run processes *)

\* the rows of the run log that record a delivery
SentRowsOf(e) == {j \in 1..Len(log) : log[j].email = e /\ log[j].status = "sent"}

\* C21: email is a unique key within a run.  Whatever the input, a
\* contacts file or a prior log, the contact sequence the loop works
\* through holds each email at most once, and the run log never holds more
\* than one sent row for the same email: no recipient is mailed twice in
\* one run.
C21_UniqueEmail ==
    /\ \A i, j \in 1..Len(contacts) :
           contacts[i].email = contacts[j].email => i = j
    /\ \A e \in LoggedEmails : Cardinality(SentRowsOf(e)) <= 1

\* the rows of the run log, and the entries of latest_status, that record a
\* contact passed over at lines 355-365
SkippedRows == {j \in 1..Len(log) : log[j].status = "skipped_max_retries"}

SkippedStatus ==
    {e \in DOMAIN latest_status :
        latest_status[e].status = "skipped_max_retries"}

\* C22: in every run each contact that reaches the loop has fewer previous
\* attempts than max_retries (none for a contacts file; the replay leaves
\* out the others), so no contact is ever skipped: the run log holds no
\* skipped_max_retries row, no latest status is skipped_max_retries and the
\* skipped counter of the summary is 0.
C22_NeverSkipped ==
    /\ \A k \in 1..Len(contacts) :
           /\ PrevOf(k) >= 0
           /\ PrevOf(k) < cfg.max_retries
           /\ args.source = "contacts" => PrevOf(k) = 0
    /\ skipped = 0
    /\ SkippedRows = {}
    /\ SkippedStatus = {}

\* a replay run that has worked through its list, one of whose contacts
\* came with previous attempts one below max_retries
C22_Witness ==
    /\ pc = "done"
    /\ args.source = "retry_from_log"
    /\ \E k \in 1..Len(contacts) :
           /\ PrevOf(k) > 0
           /\ PrevOf(k) = cfg.max_retries - 1
           /\ Finished(k)
           /\ SegRows(k) # <<>>

=============================================================================
